---- MODULE Spec2Model ----
(***************************************************************************)
(* State-machine model of the two scripts of the repository:               *)
(*   scripts/test_hover.py    - arm, take off, up, down, stop, land         *)
(*   scripts/test_basiclog.py - producer thread (data_collection_thread),   *)
(*                              render callback (animate) and main block    *)
(* A run executes one of the two scripts (variable script).                 *)
(***************************************************************************)
EXTENDS Integers, Sequences, FiniteSets, TLC

\* ------------------------------------------------------------------ bounds
\* Number of log frames the Link delivers before it only stalls or fails
\* (frames that end the loop are always deliverable, see LinkMayDeliver).
MaxFrames == 5
\* deque(maxlen=1000) of test_basiclog.py:33-36, scaled down.
maxlen == 3
\* Capacities over which the deque append is replayed as a pure function.
MaxCap == 5

VARIABLES
    script,            \* which script runs: "hover" or "basiclog"
    \* ---- test_hover.py
    hpc,               \* position of the main block
    cmds,              \* commands issued to the vehicle so far, in order
    pending,           \* exception in flight ("none" when there is none)
    body_err,          \* history: the error that ended the scripted sequence
    fail_at,           \* history: Len(cmds) when that error was raised
    exit_err,          \* history: the last error raised by an __exit__
    raised,            \* what reached the caller when the script ended
    entered,           \* the MotionCommander scope was entered (took off)
    enter_err,         \* history: the error raised by connect or by arming
    \* ---- test_basiclog.py, module globals
    timestamps, roll_data, pitch_data, yaw_data,
    data_count,
    running,
    data_lock,         \* "free", "producer" or "main"
    \* ---- data_collection_thread
    ppc,               \* position of the producer thread
    log_entry,         \* the frame the loop is handling
    nread,             \* frames the iterator has returned
    perr,              \* exception in flight in the producer
    scf_open,          \* SyncCrazyflie link is open
    logger_open,       \* SyncLogger is connected
    end_set,           \* endTime has been computed (line 133)
    deadline_elapsed,  \* time.time() > endTime
    reported,          \* the except clause printed the failure
    \* ---- main block and animate
    mpc,               \* position of the main thread
    aret,              \* the plt.pause call animate was invoked from
    times_plot, roll_plot, pitch_plot, yaw_plot,   \* animate's locals
    tick_err,          \* an exception raised inside animate
    interrupted,       \* the KeyboardInterrupt was caught (line 187)
    count_at_stop,     \* data_count when running was set to False (line 189)
    final_total,       \* the total printed by line 195
    read_late,         \* a frame was read after endTime with running = True
    \* ---- history variables of the telemetry claims
    hist_t, hist_r, hist_p, hist_y,   \* every value ever appended
    reads_after_stop,  \* frames the iterator returned while running = False
    snaps,             \* the last two renders: [prev, cur] of [kind, len, count]
    at_fail            \* buffers and counter when a link failure was raised

hvars == <<hpc, cmds, pending, body_err, fail_at, exit_err, raised, entered,
           enter_err>>
gvars == <<timestamps, roll_data, pitch_data, yaw_data, data_count>>
histvars == <<hist_t, hist_r, hist_p, hist_y>>
pvars == <<ppc, log_entry, nread, perr, scf_open, logger_open, end_set, reported,
           reads_after_stop, read_late, at_fail>>
alocals == <<times_plot, roll_plot, pitch_plot, yaw_plot>>
mvars == <<mpc, aret, alocals, tick_err, interrupted, count_at_stop,
          final_total, snaps>>
lvars == <<gvars, histvars, running, data_lock, deadline_elapsed, pvars, mvars>>
vars == <<script, hvars, lvars>>

\* ================================================================ hover
\* Errors of the vehicle link and the interrupt of the invoking thread.
ConnectionFailed == "ConnectionFailed"
ArmingRejected == "ArmingRejected"
MotionTimeout == "MotionTimeout"
LinkError == "LinkError"
KeyboardInterrupt == "KeyboardInterrupt"

Issue(c) == cmds' = Append(cmds, c)

\* `with SyncCrazyflie(...)`: once entered, leaving the block by an
\* exception runs SyncCrazyflie.__exit__ (disconnect).
ScfScopeExit == "scf_exit"

\* Faulty variant: the motion scope is left without running its __exit__.
McScopeSkipped == ScfScopeExit

\* `with MotionCommander(scf) as mc`: once entered, leaving the block,
\* normally or by an exception, runs MotionCommander.__exit__ (land).
McScopeExit == "mc_exit"

\* Faulty variant: an error raised by __exit__ is dropped in favour of the first.
KeepFirst(old, new) == IF old = "none" THEN new ELSE old

\* An exception raised while another is being handled replaces it.
Replace(old, new) == new

\* line 20: SyncCrazyflie.__enter__ opens the link.
HConnect ==
    /\ script = "hover" /\ hpc = "connect"
    /\ Issue("connect")
    /\ \E out \in {"ok", ConnectionFailed, KeyboardInterrupt} :
         IF out = "ok"
         THEN /\ hpc' = "arm"
              /\ UNCHANGED <<pending, raised, enter_err>>
         ELSE \* __enter__ raised: the block is not entered, no __exit__
              /\ hpc' = "done"
              /\ pending' = out
              /\ raised' = out
              /\ enter_err' = out
    /\ UNCHANGED <<body_err, fail_at, exit_err, entered, script, lvars>>

\* Faulty variant: a failed arming request is ignored and the script goes on.
ArmErrorIgnored == "arm_sleep"

\* line 22 is not inside any try: an error raised by the arming request
\* leaves the block of line 20.
OnArmError == ScfScopeExit

\* Faulty variant: the script goes on to take off without the arming request.
HArmOmitted ==
    /\ script = "hover" /\ hpc = "arm"
    /\ hpc' = "arm_sleep"
    /\ UNCHANGED <<cmds, pending, body_err, fail_at, exit_err, raised, entered,
                   enter_err, script, lvars>>

\* line 22: scf.cf.platform.send_arming_request(True)
HArm ==
    /\ script = "hover" /\ hpc = "arm"
    /\ Issue("arm")
    /\ \E out \in {"ok", ArmingRejected, KeyboardInterrupt} :
         IF out = "ok"
         THEN hpc' = "arm_sleep" /\ UNCHANGED <<pending, enter_err>>
         ELSE hpc' = OnArmError /\ pending' = out /\ enter_err' = out
    /\ UNCHANGED <<body_err, fail_at, exit_err, raised, entered, script, lvars>>

\* line 23: time.sleep(1.0)
HArmSleep ==
    /\ script = "hover" /\ hpc = "arm_sleep"
    /\ \E out \in {"ok", KeyboardInterrupt} :
         IF out = "ok"
         THEN hpc' = "takeoff" /\ UNCHANGED pending
         ELSE hpc' = ScfScopeExit /\ pending' = out
    /\ UNCHANGED <<cmds, body_err, fail_at, exit_err, raised, entered, enter_err, script, lvars>>

\* line 26: MotionCommander.__enter__ takes off.
HTakeoff ==
    /\ script = "hover" /\ hpc = "takeoff"
    /\ Issue("takeoff")
    /\ \E out \in {"ok", MotionTimeout, KeyboardInterrupt} :
         IF out = "ok"
         THEN hpc' = "sleep1" /\ entered' = TRUE /\ UNCHANGED pending
         ELSE \* __enter__ raised: the motion scope is not entered
              hpc' = ScfScopeExit /\ pending' = out /\ UNCHANGED entered
    /\ UNCHANGED <<body_err, fail_at, exit_err, raised, enter_err, script, lvars>>

\* One statement of the with-body: it completes, or raises and leaves the
\* body through the motion scope's exit.
BodyStep(at, cmd, errs, next) ==
    /\ script = "hover" /\ hpc = at
    /\ IF cmd = "" THEN UNCHANGED cmds ELSE Issue(cmd)
    /\ \E out \in {"ok"} \cup errs :
         IF out = "ok"
         THEN hpc' = next /\ UNCHANGED <<pending, body_err, fail_at>>
         ELSE /\ hpc' = McScopeExit /\ pending' = out
              /\ body_err' = out /\ fail_at' = Len(cmds')
    /\ UNCHANGED <<exit_err, raised, entered, enter_err, script, lvars>>

\* line 27: time.sleep(1)
HSleep1 == BodyStep("sleep1", "", {KeyboardInterrupt}, "up")
\* line 29: mc.up(0.7)
HUp == BodyStep("up", "up", {MotionTimeout, KeyboardInterrupt}, "down")
\* line 33: mc.down(0.7)
HDown == BodyStep("down", "down", {MotionTimeout, KeyboardInterrupt}, "sleep2")
\* line 35: time.sleep(1)
HSleep2 == BodyStep("sleep2", "", {KeyboardInterrupt}, "stop")
\* Faulty variant: the script lands by itself at the end of the sequence.
StopLands == "land"

\* line 37: mc.stop() stops the motion (hover); it is not a land command.
StopCommand == "stop"

\* line 37: mc.stop()
HStop ==
    BodyStep("stop", StopCommand, {MotionTimeout, KeyboardInterrupt}, McScopeExit)

\* line 39: the MotionCommander goes out of scope: __exit__ lands.
HMcExit ==
    /\ script = "hover" /\ hpc = "mc_exit"
    /\ Issue("land")
    /\ \E out \in {"ok", MotionTimeout, KeyboardInterrupt} :
         IF out = "ok"
         THEN UNCHANGED <<pending, exit_err>>
         ELSE pending' = Replace(pending, out) /\ exit_err' = out
    /\ hpc' = ScfScopeExit
    /\ UNCHANGED <<body_err, fail_at, raised, entered, enter_err, script, lvars>>

\* end of the block of line 20: SyncCrazyflie.__exit__ closes the link;
\* whatever is in flight then reaches the caller.
HScfExit ==
    /\ script = "hover" /\ hpc = "scf_exit"
    /\ Issue("disconnect")
    /\ \E out \in {"ok", LinkError, KeyboardInterrupt} :
         /\ IF out = "ok"
            THEN UNCHANGED <<pending, exit_err>>
            ELSE pending' = Replace(pending, out) /\ exit_err' = out
         /\ raised' = pending'
    /\ hpc' = "done"
    /\ UNCHANGED <<body_err, fail_at, entered, enter_err, script, lvars>>

HoverStep ==
    \/ HConnect \/ HArm \/ HArmSleep \/ HTakeoff
    \/ HSleep1 \/ HUp \/ HDown \/ HSleep2 \/ HStop
    \/ HMcExit \/ HScfExit

HoverInit ==
    /\ hpc = "connect"
    /\ cmds = <<>>
    /\ pending = "none"
    /\ body_err = "none"
    /\ fail_at = 0
    /\ exit_err = "none"
    /\ raised = "none"
    /\ entered = FALSE
    /\ enter_err = "none"


\* ============================================================= basiclog
\* collections.deque(maxlen=N).append: when full, the oldest (leftmost)
\* element is discarded.
DequeAppendDropsNewest(s, v, N) ==
    IF Len(s) >= N THEN s ELSE Append(s, v)

DequeAppendClears(s, v, N) ==
    IF Len(s) >= N THEN <<v>> ELSE Append(s, v)

DequeAppend(s, v, N) ==
    IF Len(s) >= N THEN Append(Tail(s), v) ELSE Append(s, v)

\* The n-th log entry of the Stabilizer block (lines 122-125, 139-141):
\* a link-assigned increasing timestamp in ms and the three channels.
Frame(n) ==
    [timestamp |-> 1000 + 100 * (n - 1),
     roll |-> n - 1, pitch |-> 0 - (n - 1), yaw |-> 2 * (n - 1),
     channels |-> {"roll", "pitch", "yaw"}]

\* A log entry whose data mapping lacks the key of channel c.
PartialFrame(n, c) == [Frame(n) EXCEPT !.channels = @ \ {c}]

NoFrame == [timestamp |-> 0, roll |-> 0, pitch |-> 0, yaw |-> 0,
            channels |-> {"roll", "pitch", "yaw"}]

NoRender == [kind |-> "none", len |-> 0, count |-> 0]

Buffers == [t |-> timestamps, r |-> roll_data, p |-> pitch_data,
            y |-> yaw_data, count |-> data_count]

\* threading.Thread.is_alive()
IsAlive == ppc \notin {"idle", "done", "crashed"}

\* `except Exception` (line 155): every link error is an Exception.
CatchesNothing(e) == FALSE

Catches(e) == e \in {LinkError, "KeyError", "IndexError", "ValueError"}

\* A raise inside the producer's try block: remember the buffers the
\* first time a link failure is raised.
PRaise(e) ==
    /\ perr' = e
    /\ at_fail' = IF at_fail.set THEN at_fail
                  ELSE [set |-> TRUE, buf |-> Buffers]

\* ------------------------------------------------ data_collection_thread
\* line 129: SyncCrazyflie.__enter__ (after the LogConfig of 122-127)
PConnect ==
    /\ script = "basiclog" /\ ppc = "connect"
    /\ \E out \in {"ok", LinkError} :
         IF out = "ok"
         THEN /\ scf_open' = TRUE /\ ppc' = "open_logger"
              /\ UNCHANGED <<perr, at_fail>>
         ELSE /\ PRaise(out) /\ ppc' = "except"
              /\ UNCHANGED scf_open
    /\ UNCHANGED <<log_entry, nread, logger_open, end_set, reported,
                   reads_after_stop, read_late>>
    /\ UNCHANGED <<script, hvars, gvars, histvars, running, data_lock,
                   deadline_elapsed, mvars>>

\* line 132: SyncLogger.__enter__
POpenLogger ==
    /\ script = "basiclog" /\ ppc = "open_logger"
    /\ \E out \in {"ok", LinkError} :
         IF out = "ok"
         THEN /\ logger_open' = TRUE /\ ppc' = "set_end"
              /\ UNCHANGED <<perr, at_fail>>
         ELSE /\ PRaise(out) /\ ppc' = "scf_exit"
              /\ UNCHANGED logger_open
    /\ UNCHANGED <<log_entry, nread, scf_open, end_set, reported,
                   reads_after_stop, read_late>>
    /\ UNCHANGED <<script, hvars, gvars, histvars, running, data_lock,
                   deadline_elapsed, mvars>>

\* line 133: endTime = time.time() + 60
PSetEnd ==
    /\ script = "basiclog" /\ ppc = "set_end"
    /\ end_set' = TRUE
    /\ ppc' = "next"
    /\ UNCHANGED <<log_entry, nread, perr, scf_open, logger_open, reported,
                   reads_after_stop, read_late, at_fail>>
    /\ UNCHANGED <<script, hvars, gvars, histvars, running, data_lock,
                   deadline_elapsed, mvars>>

\* The Link delivers the frames up to MaxFrames, and after them one more
\* frame when its handling ends the loop (stop flag set, deadline passed).
LinkMayDeliver ==
    \/ nread < MaxFrames
    \/ (~running \/ deadline_elapsed) /\ nread <= MaxFrames

\* line 135: the iterator returns the next log entry.
LinkDeliver ==
    /\ script = "basiclog" /\ ppc = "next"
    /\ LinkMayDeliver
    /\ nread' = nread + 1
    /\ log_entry' = Frame(nread + 1)
    /\ reads_after_stop' = reads_after_stop + (IF running THEN 0 ELSE 1)
    /\ read_late' = (read_late \/ (running /\ deadline_elapsed))
    /\ ppc' = "check_running"
    /\ UNCHANGED <<perr, scf_open, logger_open, end_set, reported, at_fail>>
    /\ UNCHANGED <<script, hvars, gvars, histvars, running, data_lock,
                   deadline_elapsed, mvars>>

\* line 135: the iterator returns an entry that lacks one channel.
LinkDeliverPartial ==
    /\ script = "basiclog" /\ ppc = "next"
    /\ nread < MaxFrames
    /\ nread' = nread + 1
    /\ \E c \in {"roll", "pitch", "yaw"} : log_entry' = PartialFrame(nread + 1, c)
    /\ reads_after_stop' = reads_after_stop + (IF running THEN 0 ELSE 1)
    /\ read_late' = (read_late \/ (running /\ deadline_elapsed))
    /\ ppc' = "check_running"
    /\ UNCHANGED <<perr, scf_open, logger_open, end_set, reported, at_fail>>
    /\ UNCHANGED <<script, hvars, gvars, histvars, running, data_lock,
                   deadline_elapsed, mvars>>

\* line 135: the iterator raises.
LinkFail ==
    /\ script = "basiclog" /\ ppc = "next"
    /\ PRaise(LinkError)
    /\ ppc' = "logger_exit"
    /\ UNCHANGED <<log_entry, nread, scf_open, logger_open, end_set,
                   reported, reads_after_stop, read_late>>
    /\ UNCHANGED <<script, hvars, gvars, histvars, running, data_lock,
                   deadline_elapsed, mvars>>

\* line 135: the iterator is exhausted (StopIteration ends the for loop).
LinkEnds ==
    /\ script = "basiclog" /\ ppc = "next"
    /\ ppc' = "logger_exit"
    /\ UNCHANGED <<log_entry, nread, perr, scf_open, logger_open, end_set,
                   reported, reads_after_stop, read_late, at_fail>>
    /\ UNCHANGED <<script, hvars, gvars, histvars, running, data_lock,
                   deadline_elapsed, mvars>>

\* Faulty variant: the loop never looks at the flag.
StopIgnored == FALSE

\* Faulty variant: the loop also stops on an elapsed deadline before the append.
StopOrDeadline == ~running \/ deadline_elapsed

\* line 136: if not running
StopObserved == ~running

\* lines 136-141: if not running: break; else unpack the entry.
PCheckRunning ==
    /\ script = "basiclog" /\ ppc = "check_running"
    /\ ppc' = IF StopObserved THEN "logger_exit" ELSE "acquire"
    /\ UNCHANGED <<log_entry, nread, perr, scf_open, logger_open, end_set,
                   reported, reads_after_stop, read_late, at_fail>>
    /\ UNCHANGED <<script, hvars, gvars, histvars, running, data_lock,
                   deadline_elapsed, mvars>>

\* Faulty variant: the producer enters its block without taking the lock.
NoLock == TRUE

\* threading.Lock: acquire blocks until the lock is free.
LockFree == data_lock = "free"

\* line 144: with data_lock (acquire)
PAcquire ==
    /\ script = "basiclog" /\ ppc = "acquire"
    /\ LockFree
    /\ data_lock' = "producer"
    /\ ppc' = "app_t"
    /\ UNCHANGED <<script, hvars, gvars, histvars, running, deadline_elapsed,
                   mvars>>
    /\ UNCHANGED <<log_entry, nread, perr, scf_open, logger_open, end_set,
                   reported, reads_after_stop, read_late, at_fail>>

PUnchangedInBlock ==
    /\ UNCHANGED <<log_entry, nread, perr, scf_open, logger_open, end_set,
                   reported, reads_after_stop, read_late, at_fail>>
    /\ UNCHANGED <<script, hvars, running, data_lock, deadline_elapsed, mvars>>

\* data['stabilizer.<c>'] raises KeyError when the entry lacks the channel:
\* the exception leaves the block of line 144 (the lock is released) and
\* the loop, with what was appended before it left in place.
PKeyError ==
    /\ PRaise("KeyError")
    /\ data_lock' = "free"
    /\ ppc' = "logger_exit"
    /\ UNCHANGED <<gvars, histvars>>
    /\ UNCHANGED <<log_entry, nread, scf_open, logger_open, end_set, reported,
                   reads_after_stop, read_late>>
    /\ UNCHANGED <<script, hvars, running, deadline_elapsed, mvars>>

\* line 145: timestamps.append(timestamp)
PAppT ==
    /\ script = "basiclog" /\ ppc = "app_t"
    /\ timestamps' = DequeAppend(timestamps, log_entry.timestamp, maxlen)
    /\ hist_t' = Append(hist_t, log_entry.timestamp)
    /\ ppc' = "app_r"
    /\ UNCHANGED <<roll_data, pitch_data, yaw_data, data_count,
                   hist_r, hist_p, hist_y>>
    /\ PUnchangedInBlock

\* line 146: roll_data.append(data['stabilizer.roll'])
PAppR ==
    /\ script = "basiclog" /\ ppc = "app_r"
    /\ IF "roll" \in log_entry.channels
       THEN /\ roll_data' = DequeAppend(roll_data, log_entry.roll, maxlen)
            /\ hist_r' = Append(hist_r, log_entry.roll)
            /\ ppc' = "app_p"
            /\ UNCHANGED <<timestamps, pitch_data, yaw_data, data_count,
                   hist_t, hist_p, hist_y>>
            /\ PUnchangedInBlock
       ELSE PKeyError

\* line 147: pitch_data.append(data['stabilizer.pitch'])
PAppP ==
    /\ script = "basiclog" /\ ppc = "app_p"
    /\ IF "pitch" \in log_entry.channels
       THEN /\ pitch_data' = DequeAppend(pitch_data, log_entry.pitch, maxlen)
            /\ hist_p' = Append(hist_p, log_entry.pitch)
            /\ ppc' = "app_y"
            /\ UNCHANGED <<timestamps, roll_data, yaw_data, data_count,
                   hist_t, hist_r, hist_y>>
            /\ PUnchangedInBlock
       ELSE PKeyError

\* line 148: yaw_data.append(data['stabilizer.yaw'])
PAppY ==
    /\ script = "basiclog" /\ ppc = "app_y"
    /\ IF "yaw" \in log_entry.channels
       THEN /\ yaw_data' = DequeAppend(yaw_data, log_entry.yaw, maxlen)
            /\ hist_y' = Append(hist_y, log_entry.yaw)
            /\ ppc' = "inc"
            /\ UNCHANGED <<timestamps, roll_data, pitch_data, data_count,
                   hist_t, hist_r, hist_p>>
            /\ PUnchangedInBlock
       ELSE PKeyError

\* line 149: data_count += 1
Incremented(c) == c + 1

PInc ==
    /\ script = "basiclog" /\ ppc = "inc"
    /\ data_count' = Incremented(data_count)
    /\ ppc' = "release"
    /\ UNCHANGED <<timestamps, roll_data, pitch_data, yaw_data, histvars>>
    /\ PUnchangedInBlock

\* Faulty variant: the lock is kept across the wait for the next frame.
LockKeptByProducer == "producer"

\* Leaving the block of `with data_lock` (line 144) releases the lock.
LockAfterProducerBlock == "free"

\* end of the block of line 144: the lock is released.
PRelease ==
    /\ script = "basiclog" /\ ppc = "release"
    /\ data_lock' = LockAfterProducerBlock
    /\ ppc' = "check_deadline"
    /\ UNCHANGED <<script, hvars, gvars, histvars, running, deadline_elapsed,
                   mvars>>
    /\ UNCHANGED <<log_entry, nread, perr, scf_open, logger_open, end_set,
                   reported, reads_after_stop, read_late, at_fail>>

\* lines 151-154: print the entry; if time.time() > endTime: break
PCheckDeadline ==
    /\ script = "basiclog" /\ ppc = "check_deadline"
    /\ ppc' = IF deadline_elapsed THEN "logger_exit" ELSE "next"
    /\ UNCHANGED <<log_entry, nread, perr, scf_open, logger_open, end_set,
                   reported, reads_after_stop, read_late, at_fail>>
    /\ UNCHANGED <<script, hvars, gvars, histvars, running, data_lock,
                   deadline_elapsed, mvars>>

\* end of the block of line 132: SyncLogger.__exit__ (disconnect the logger)
PLoggerExit ==
    /\ script = "basiclog" /\ ppc = "logger_exit"
    /\ logger_open' = FALSE
    /\ \E out \in {"ok", LinkError} :
         IF out = "ok" THEN UNCHANGED <<perr, at_fail>> ELSE PRaise(out)
    /\ ppc' = "scf_exit"
    /\ UNCHANGED <<log_entry, nread, scf_open, end_set, reported,
                   reads_after_stop, read_late>>
    /\ UNCHANGED <<script, hvars, gvars, histvars, running, data_lock,
                   deadline_elapsed, mvars>>

\* Faulty variant: the link is not closed when the loop is left.
LinkLeftAsIs(open) == open

\* SyncCrazyflie.__exit__ closes the link.
LinkAfterExit(open) == FALSE

\* end of the block of line 129: SyncCrazyflie.__exit__ (close the link)
PScfExit ==
    /\ script = "basiclog" /\ ppc = "scf_exit"
    /\ scf_open' = LinkAfterExit(scf_open)
    /\ \E out \in {"ok", LinkError} :
         IF out = "ok" THEN UNCHANGED <<perr, at_fail>> ELSE PRaise(out)
    /\ ppc' = IF perr' = "none" THEN "done" ELSE "except"
    /\ UNCHANGED <<log_entry, nread, logger_open, end_set, reported,
                   reads_after_stop, read_late>>
    /\ UNCHANGED <<script, hvars, gvars, histvars, running, data_lock,
                   deadline_elapsed, mvars>>

\* lines 155-157: except Exception as e: print the failure.
PExcept ==
    /\ script = "basiclog" /\ ppc = "except"
    /\ IF Catches(perr)
       THEN reported' = TRUE /\ ppc' = "done"
       ELSE reported' = reported /\ ppc' = "crashed"
    /\ UNCHANGED <<log_entry, nread, perr, scf_open, logger_open, end_set,
                   reads_after_stop, read_late, at_fail>>
    /\ UNCHANGED <<script, hvars, gvars, histvars, running, data_lock,
                   deadline_elapsed, mvars>>

\* The wall clock passes endTime (line 133) while the thread is alive.
DeadlineElapses ==
    /\ script = "basiclog"
    /\ end_set /\ ~deadline_elapsed /\ IsAlive
    /\ deadline_elapsed' = TRUE
    /\ UNCHANGED <<script, hvars, gvars, histvars, running, data_lock,
                   pvars, mvars>>

ProducerStep ==
    \/ PConnect \/ POpenLogger \/ PSetEnd \/ PCheckRunning \/ PAcquire
    \/ PAppT \/ PAppR \/ PAppP \/ PAppY \/ PInc \/ PRelease
    \/ PCheckDeadline \/ PLoggerExit \/ PScfExit \/ PExcept


\* ------------------------------------------------------------- animate
MUnchangedShared ==
    UNCHANGED <<script, hvars, gvars, histvars, running, deadline_elapsed,
                pvars>>

InPause == mpc \in {"pause0", "pause"}

\* The animation timer (interval=30, line 172) fires inside plt.pause.
ATick ==
    /\ script = "basiclog" /\ InPause
    /\ aret' = mpc
    /\ mpc' = "a_acquire"
    /\ UNCHANGED <<alocals, tick_err, interrupted, count_at_stop, final_total, snaps, data_lock>>
    /\ MUnchangedShared

\* line 48: with data_lock (acquire)
AAcquire ==
    /\ script = "basiclog" /\ mpc = "a_acquire"
    /\ LockFree
    /\ data_lock' = "main"
    /\ mpc' = "a_check"
    /\ UNCHANGED <<aret, alocals, tick_err, interrupted, count_at_stop, final_total, snaps>>
    /\ MUnchangedShared

\* Faulty variant: the threshold of line 49 is off by one.
UsePlotFromTwo(n) == n >= 2

\* line 49: if len(timestamps) > 2
UsePlot(n) == n > 2

ACheck ==
    /\ script = "basiclog" /\ mpc = "a_check"
    /\ mpc' = IF UsePlot(Len(timestamps)) THEN "a_times" ELSE "a_placeholder"
    /\ UNCHANGED <<aret, alocals, tick_err, interrupted, count_at_stop, final_total, snaps, data_lock>>
    /\ MUnchangedShared

\* An exception inside animate leaves the with block (the lock is released)
\* and propagates out of plt.pause; only KeyboardInterrupt is caught there.
ARaise(e) ==
    /\ tick_err' = e
    /\ data_lock' = "free"
    /\ mpc' = "crashed"

\* lines 51-55: start_time = timestamps[0]; times relative to it.
\* Elapsed times are kept in milliseconds (the code divides by 1000.0).
ATimes ==
    /\ script = "basiclog" /\ mpc = "a_times"
    /\ IF Len(timestamps) = 0
       THEN ARaise("IndexError") /\ UNCHANGED times_plot
       ELSE /\ times_plot' = [i \in 1..Len(timestamps) |->
                                 timestamps[i] - timestamps[1]]
            /\ mpc' = "a_roll"
            /\ UNCHANGED <<tick_err, data_lock>>
    /\ UNCHANGED <<aret, roll_plot, pitch_plot, yaw_plot, interrupted, count_at_stop, final_total, snaps>>
    /\ MUnchangedShared

\* line 56: roll_plot = list(roll_data)
ARoll ==
    /\ script = "basiclog" /\ mpc = "a_roll"
    /\ roll_plot' = roll_data
    /\ mpc' = "a_pitch"
    /\ UNCHANGED <<aret, times_plot, pitch_plot, yaw_plot, tick_err,
                   interrupted, count_at_stop, final_total, snaps, data_lock>>
    /\ MUnchangedShared

\* line 57: pitch_plot = list(pitch_data)
APitch ==
    /\ script = "basiclog" /\ mpc = "a_pitch"
    /\ pitch_plot' = pitch_data
    /\ mpc' = "a_yaw"
    /\ UNCHANGED <<aret, times_plot, roll_plot, yaw_plot, tick_err,
                   interrupted, count_at_stop, final_total, snaps, data_lock>>
    /\ MUnchangedShared

\* line 58: yaw_plot = list(yaw_data)
AYaw ==
    /\ script = "basiclog" /\ mpc = "a_yaw"
    /\ yaw_plot' = yaw_data
    /\ mpc' = "a_plot"
    /\ UNCHANGED <<aret, times_plot, roll_plot, pitch_plot, tick_err,
                   interrupted, count_at_stop, final_total, snaps, data_lock>>
    /\ MUnchangedShared

Rendered(kind, n) ==
    [prev |-> snaps.cur,
     cur |-> [kind |-> kind, len |-> n, count |-> data_count]]

\* lines 61-97: the three axes are cleared and plotted; ax.plot raises
\* ValueError when x and y differ in length; the title shows data_count.
APlot ==
    /\ script = "basiclog" /\ mpc = "a_plot"
    /\ IF \/ Len(roll_plot) # Len(times_plot)
          \/ Len(pitch_plot) # Len(times_plot)
          \/ Len(yaw_plot) # Len(times_plot)
       THEN ARaise("ValueError") /\ UNCHANGED snaps
       ELSE /\ snaps' = Rendered("plot", Len(times_plot))
            /\ mpc' = "a_release"
            /\ UNCHANGED <<tick_err, data_lock>>
    /\ UNCHANGED <<aret, alocals, interrupted, count_at_stop, final_total>>
    /\ MUnchangedShared

\* lines 98-112: the "Waiting for data..." placeholder; the title shows
\* data_count.
APlaceholder ==
    /\ script = "basiclog" /\ mpc = "a_placeholder"
    /\ snaps' = Rendered("placeholder", Len(timestamps))
    /\ mpc' = "a_release"
    /\ UNCHANGED <<aret, alocals, tick_err, interrupted, count_at_stop, final_total, data_lock>>
    /\ MUnchangedShared

\* end of the block of line 48: the lock is released.
ARelease ==
    /\ script = "basiclog" /\ mpc = "a_release"
    /\ data_lock' = "free"
    /\ mpc' = "a_draw"
    /\ UNCHANGED <<aret, alocals, tick_err, interrupted, count_at_stop, final_total, snaps>>
    /\ MUnchangedShared

\* lines 115-116: fig.canvas.draw(); flush_events(); animate returns.
ADraw ==
    /\ script = "basiclog" /\ mpc = "a_draw"
    /\ mpc' = aret
    /\ aret' = "none"
    /\ times_plot' = <<>> /\ roll_plot' = <<>>
    /\ pitch_plot' = <<>> /\ yaw_plot' = <<>>
    /\ UNCHANGED <<tick_err, interrupted, count_at_stop, final_total, snaps, data_lock>>
    /\ MUnchangedShared

\* The steps of one call of animate, once the timer has fired.
AnimateBody ==
    \/ AAcquire \/ ACheck \/ ATimes \/ ARoll \/ APitch \/ AYaw
    \/ APlot \/ APlaceholder \/ ARelease \/ ADraw

\* ---------------------------------------------------------- main block
MUnchangedLocal == UNCHANGED <<aret, alocals, tick_err, snaps, data_lock>>

\* lines 161-176: drivers, figure, FuncAnimation, show.
MSetup ==
    /\ script = "basiclog" /\ mpc = "setup"
    /\ mpc' = "pause0"
    /\ UNCHANGED <<interrupted, count_at_stop, final_total>> /\ MUnchangedLocal /\ MUnchangedShared

\* line 177 / line 186: plt.pause(0.1) returns.
MPauseEnd ==
    /\ script = "basiclog" /\ InPause
    /\ mpc' = IF mpc = "pause0" THEN "start_thread" ELSE "loop_check"
    /\ UNCHANGED <<interrupted, count_at_stop, final_total>> /\ MUnchangedLocal /\ MUnchangedShared

\* lines 180-181: data_thread.start()
MStartThread ==
    /\ script = "basiclog" /\ mpc = "start_thread"
    /\ ppc' = "connect"
    /\ mpc' = "loop_check"
    /\ UNCHANGED <<interrupted, count_at_stop, final_total>> /\ MUnchangedLocal
    /\ UNCHANGED <<script, hvars, gvars, histvars, running, deadline_elapsed,
                   log_entry, nread, perr, scf_open, logger_open, end_set,
                   reported, reads_after_stop, read_late, at_fail>>

\* Faulty variant: the loop does not look at the thread.
LoopIgnoresThread == running

\* line 185: running and data_thread.is_alive()
LoopContinues == running /\ IsAlive

\* line 185: while running and data_thread.is_alive()
MLoopCheck ==
    /\ script = "basiclog" /\ mpc = "loop_check"
    /\ mpc' = IF LoopContinues THEN "pause" ELSE "join"
    /\ UNCHANGED <<interrupted, count_at_stop, final_total>> /\ MUnchangedLocal /\ MUnchangedShared

\* The try block of lines 183-189 covers the loop test and plt.pause.
InTry == mpc \in {"loop_check", "pause"}

\* A KeyboardInterrupt of the main thread. Inside the try block it is
\* caught (lines 187-189: running = False); during the first pause, the
\* join or the final sleep it is not, and ends the main thread.
MKeyboardInterrupt ==
    /\ script = "basiclog"
    /\ mpc \in {"pause0", "loop_check", "pause", "join", "sleep3"}
    /\ IF InTry
       THEN /\ running' = FALSE
            /\ interrupted' = TRUE
            /\ count_at_stop' = data_count
            /\ mpc' = "join"
       ELSE /\ mpc' = "crashed"
            /\ UNCHANGED <<running, interrupted, count_at_stop>>
    /\ UNCHANGED final_total
    /\ MUnchangedLocal
    /\ UNCHANGED <<script, hvars, gvars, histvars, deadline_elapsed, pvars>>

\* Faulty variant: join returns after a timeout, whatever the thread does.
JoinTimesOut == TRUE

\* line 192: data_thread.join() returns when the thread has ended.
JoinReturns == ~IsAlive

MJoin ==
    /\ script = "basiclog" /\ mpc = "join"
    /\ JoinReturns
    /\ mpc' = "report"
    /\ UNCHANGED <<interrupted, count_at_stop, final_total>> /\ MUnchangedLocal /\ MUnchangedShared

\* line 195: print the total.
MReport ==
    /\ script = "basiclog" /\ mpc = "report"
    /\ mpc' = "sleep3"
    /\ final_total' = data_count
    /\ UNCHANGED <<interrupted, count_at_stop>> /\ MUnchangedLocal /\ MUnchangedShared

\* lines 196-197: time.sleep(3); plt.close()
MSleepClose ==
    /\ script = "basiclog" /\ mpc = "sleep3"
    /\ mpc' = "done"
    /\ UNCHANGED <<interrupted, count_at_stop, final_total>> /\ MUnchangedLocal /\ MUnchangedShared

MainStep ==
    \/ MSetup \/ MPauseEnd \/ MStartThread \/ MLoopCheck
    \/ MJoin \/ MReport \/ MSleepClose

\* ------------------------------------------------------- specification
LogInit ==
    /\ timestamps = <<>> /\ roll_data = <<>>
    /\ pitch_data = <<>> /\ yaw_data = <<>>
    /\ data_count = 0
    /\ running = TRUE
    /\ data_lock = "free"
    /\ ppc = "idle"
    /\ log_entry = NoFrame
    /\ nread = 0
    /\ perr = "none"
    /\ scf_open = FALSE
    /\ logger_open = FALSE
    /\ end_set = FALSE
    /\ deadline_elapsed = FALSE
    /\ reported = FALSE
    /\ mpc = "setup"
    /\ aret = "none"
    /\ times_plot = <<>> /\ roll_plot = <<>>
    /\ pitch_plot = <<>> /\ yaw_plot = <<>>
    /\ tick_err = "none"
    /\ interrupted = FALSE
    /\ count_at_stop = 0
    /\ final_total = 0
    /\ read_late = FALSE
    /\ hist_t = <<>> /\ hist_r = <<>> /\ hist_p = <<>> /\ hist_y = <<>>
    /\ reads_after_stop = 0
    /\ snaps = [prev |-> NoRender, cur |-> NoRender]
    /\ at_fail = [set |-> FALSE, buf |-> Buffers]

Init ==
    /\ script \in {"hover", "basiclog"}
    /\ HoverInit
    /\ LogInit

Next ==
    \/ HConnect \/ HArm \/ HArmSleep \/ HTakeoff
    \/ HSleep1 \/ HUp \/ HDown \/ HSleep2 \/ HStop
    \/ HMcExit \/ HScfExit
    \/ PConnect \/ POpenLogger \/ PSetEnd
    \/ LinkDeliver \/ LinkFail \/ LinkEnds
    \/ PCheckRunning \/ PAcquire
    \/ PAppT \/ PAppR \/ PAppP \/ PAppY \/ PInc \/ PRelease
    \/ PCheckDeadline \/ PLoggerExit \/ PScfExit \/ PExcept
    \/ DeadlineElapses
    \/ ATick \/ AAcquire \/ ACheck \/ ATimes \/ ARoll \/ APitch \/ AYaw
    \/ APlot \/ APlaceholder \/ ARelease \/ ADraw
    \/ MSetup \/ MPauseEnd \/ MStartThread \/ MLoopCheck
    \/ MKeyboardInterrupt \/ MJoin \/ MReport \/ MSleepClose

Spec == Init /\ [][Next]_vars

\* The scripts with a Link that may also deliver entries lacking a channel.
MalformedNext == Next \/ LinkDeliverPartial

MalformedSpec == Init /\ [][MalformedNext]_vars


\* The threads are scheduled: a thread that can take its next step takes it.
\* Nothing makes the Link deliver, fail or end, the clock pass the deadline,
\* the timer fire or the user interrupt.
FairSpec ==
    /\ Spec
    /\ WF_vars(HoverStep)
    /\ WF_vars(ProducerStep)
    /\ WF_vars(MainStep)
    /\ WF_vars(AnimateBody)

\* The same, with a Link that keeps delivering frames.
FairLinkSpec == FairSpec /\ WF_vars(LinkDeliver)

\* FairSpec, with plt.pause(0.1) returning after its interval however many
\* timer ticks ran inside it.
FairPauseSpec == FairSpec /\ SF_vars(MPauseEnd)


\* =============================================================== claims
Count(s, c) == Cardinality({i \in 1..Len(s) : s[i] = c})

Before(s, a, b) ==
    \E i, j \in 1..Len(s) : i < j /\ s[i] = a /\ s[j] = b

\* C1: once the MotionCommander scope was entered (the vehicle took off),
\* however the scripted sequence ends, control has left the motion scope
\* only after a land command was issued, and has left the flight scope only
\* after land and then disconnect were issued.
C1_GuaranteedLanding ==
    (script = "hover" /\ entered) =>
        /\ hpc \in {"scf_exit", "done"} => Count(cmds, "land") >= 1
        /\ hpc = "done" => Before(cmds, "land", "disconnect")

\* C1 witness: the sequence was interrupted in flight and the script ended.
C1_Witness ==
    /\ script = "hover" /\ entered /\ hpc = "done"
    /\ body_err = KeyboardInterrupt
    /\ Before(cmds, "land", "disconnect")

AfterFailure == SubSeq(cmds, fail_at + 1, Len(cmds))

\* C2 as stated: when a scripted motion command fails with MotionTimeout,
\* one land and then one disconnect follow, no further scripted command is
\* issued, and the caller then gets that MotionTimeout, never another error.
C2_OriginalTimeoutSurfaces ==
    (script = "hover" /\ body_err = MotionTimeout) =>
        /\ hpc # "done" => raised = "none"
        /\ hpc = "done" =>
             /\ AfterFailure = <<"land", "disconnect">>
             /\ raised = MotionTimeout

\* C2 amended: when a scripted motion command fails with MotionTimeout, one
\* land and then one disconnect follow and no further scripted command is
\* issued; only then an error reaches the caller: the MotionTimeout if land
\* and disconnect raised nothing, else the last error they raised.
C2_TimeoutThenLandDisconnect ==
    (script = "hover" /\ body_err = MotionTimeout) =>
        /\ hpc # "done" => raised = "none"
        /\ hpc = "done" =>
             /\ AfterFailure = <<"land", "disconnect">>
             /\ raised = IF exit_err = "none" THEN MotionTimeout ELSE exit_err

\* C2 witness: the ascend step timed out, land and disconnect went through
\* and the caller got the MotionTimeout.
C2_Witness ==
    /\ script = "hover" /\ hpc = "done"
    /\ body_err = MotionTimeout /\ cmds[fail_at] = "up"
    /\ exit_err = "none" /\ raised = MotionTimeout

InProducerBlock ==
    ppc \in {"app_t", "app_r", "app_p", "app_y", "inc", "release"}

InAnimateBlock ==
    mpc \in {"a_check", "a_times", "a_roll", "a_pitch", "a_yaw", "a_plot",
             "a_placeholder", "a_release"}

SameLength(a, b, c, d) == Len(a) = Len(b) /\ Len(b) = Len(c) /\ Len(c) = Len(d)

\* C3: the producer's locked block and animate's locked block are never
\* active together; what animate sees inside its block, and the four series
\* it has copied, always have equal lengths.
C3_SnapshotAtomic ==
    /\ ~(InProducerBlock /\ InAnimateBlock)
    /\ InAnimateBlock =>
         SameLength(timestamps, roll_data, pitch_data, yaw_data)
    /\ mpc \in {"a_plot", "a_release", "a_draw"} =>
         SameLength(times_plot, roll_plot, pitch_plot, yaw_plot)

\* C3 witness: animate holds a full snapshot while the producer waits for
\* the lock with the next frame.
C3_Witness ==
    /\ mpc = "a_plot" /\ ppc = "acquire"
    /\ Len(times_plot) = maxlen /\ Len(yaw_plot) = maxlen

LastN(s, n) ==
    SubSeq(s, Len(s) - (IF Len(s) < n THEN Len(s) ELSE n) + 1, Len(s))

RECURSIVE Replay(_, _)
Replay(h, N) ==
    IF h = <<>> THEN <<>>
    ELSE DequeAppend(Replay(SubSeq(h, 1, Len(h) - 1), N), h[Len(h)], N)

\* C4: each series holds the last min(M, N) of the M values appended to it,
\* in insertion order, so never more than N; the same for the appended
\* values replayed into a series of any capacity 1..MaxCap, and N=5 with
\* the values 0..6 gives [2,3,4,5,6].
C4_OverwriteOldest ==
    /\ timestamps = LastN(hist_t, maxlen) /\ Len(timestamps) <= maxlen
    /\ roll_data = LastN(hist_r, maxlen) /\ Len(roll_data) <= maxlen
    /\ pitch_data = LastN(hist_p, maxlen) /\ Len(pitch_data) <= maxlen
    /\ yaw_data = LastN(hist_y, maxlen) /\ Len(yaw_data) <= maxlen
    /\ \A N \in 1..MaxCap :
         /\ Replay(hist_r, N) = LastN(hist_r, N)
         /\ Len(Replay(hist_r, N)) <= N
    /\ Replay(<<0, 1, 2, 3, 4, 5, 6>>, 5) = <<2, 3, 4, 5, 6>>

\* C4 witness: more values were appended than the series holds.
C4_Witness ==
    /\ Len(hist_r) > maxlen /\ Len(roll_data) = maxlen
    /\ roll_data[1] = hist_r[Len(hist_r) - maxlen + 1]

\* C5: of any two successive renders, the later one read a sample count and
\* a series length at least as large as the earlier one.
C5_SnapshotsMonotonic ==
    /\ snaps.prev.count <= snaps.cur.count
    /\ snaps.prev.len <= snaps.cur.len

\* C5 witness: two successive renders of a full buffer, the count grown.
C5_Witness ==
    /\ snaps.prev.kind = "plot" /\ snaps.cur.kind = "plot"
    /\ snaps.prev.len = maxlen /\ snaps.cur.len = maxlen
    /\ snaps.prev.count < snaps.cur.count

\* C6: a tick that finds 2 or fewer samples renders the placeholder and not
\* the plot, a tick that finds more renders the plot and not the
\* placeholder, and no tick raises.
C6_PlaceholderThreshold ==
    /\ tick_err = "none"
    /\ mpc = "a_release" =>
         /\ Len(timestamps) <= 2 => snaps.cur.kind = "placeholder"
         /\ Len(timestamps) > 2 => snaps.cur.kind = "plot"
         /\ snaps.cur.len = Len(timestamps)

\* C6 witness: a tick rendered the placeholder with exactly 2 samples.
C6_Witness ==
    /\ mpc = "a_release" /\ Len(timestamps) = 2
    /\ snaps.cur.kind = "placeholder"


Handling ==
    ppc \in {"acquire", "app_t", "app_r", "app_p", "app_y", "inc", "release",
             "check_deadline"}

\* C7: the loop ends on the first frame it reads after the flag was set: no
\* frame read with the flag set is handled past the check, and no second
\* one is read; and with a Link that keeps delivering, once the flag is set
\* the producer eventually terminates.
C7_StopWithinOneFrame ==
    /\ [](reads_after_stop <= 1 /\ (Handling => reads_after_stop = 0))
    /\ (~running /\ IsAlive) ~> ~IsAlive

\* C7 witness: the loop was left on a frame read after the flag was set.
C7_Witness ==
    /\ ppc = "logger_exit" /\ reads_after_stop = 1 /\ ~running
    /\ perr = "none" /\ data_count > 0

\* C8 as stated: once the deadline has elapsed with the producer alive, the
\* producer eventually terminates, whatever the Link does afterwards.
C8_DeadlineAloneTerminates == (deadline_elapsed /\ IsAlive) ~> ~IsAlive

\* C9: a failure of connect, of the logger or of the frame iterator never
\* leaves the thread as an uncaught error; the thread ends normally having
\* reported it, and the buffers and the counter stay as they were when the
\* failure was raised.
C9_LinkFailureContained ==
    /\ ppc # "crashed"
    /\ at_fail.set => Buffers = at_fail.buf
    /\ (at_fail.set /\ ppc = "done") => reported

\* C9 witness: the iterator failed after frames had been buffered and the
\* thread has ended.
C9_Witness ==
    /\ ppc = "done" /\ at_fail.set /\ reported
    /\ data_count > 0 /\ Len(timestamps) = data_count

Returned == mpc \in {"report", "sleep3", "done"}

Rendering == mpc \in {"a_plot", "a_placeholder"}

\* C11 as stated: animate holds the lock only while it copies the series
\* and the counter, never while the renderer (the axes calls of lines 61-97
\* and 100-112) is invoked, so the producer never waits for a render.
C11_RenderOutsideLock ==
    Rendering => ~(data_lock = "main" /\ ppc = "acquire")

Scripted == {"up", "down", "stop"}

C13_LandExactlyOnce ==
    script = "hover" =>
        /\ Count(cmds, "land") <= 1
        /\ (entered /\ hpc \in {"scf_exit", "done"}) => Count(cmds, "land") = 1

\* C13 witness: the script called stop, left the scope and ended; one land.
C13_Witness ==
    /\ script = "hover" /\ hpc = "done" /\ entered
    /\ Count(cmds, "stop") = 1 /\ Count(cmds, "land") = 1

\* C14: the link is never closed while the logger is still open (the
\* logger is closed first), and once the producer thread has terminated
\* neither the logger nor the link is open, whichever way the loop ended.
C14_LinkReleased ==
    /\ logger_open => scf_open
    /\ ppc \in {"except", "done", "crashed"} => ~logger_open /\ ~scf_open
    /\ ppc = "scf_exit" => ~logger_open

\* C14 witness: the loop ended on the deadline after frames were handled,
\* and the thread terminated with logger and link closed.
C14_Witness ==
    /\ ppc = "done" /\ perr = "none" /\ deadline_elapsed /\ running
    /\ data_count > 0 /\ ~logger_open /\ ~scf_open

ProducerEnded == ppc \in {"done", "crashed"}

\* C15: no render tick ever raises, so ticks after the producer has
\* terminated complete on what is buffered; and once the producer has
\* terminated the main block leaves the render loop and returns (it ends
\* otherwise only by an interrupt that is not caught).
C15_ConsumerSurvivesProducer ==
    /\ [](tick_err = "none")
    /\ ProducerEnded ~> (mpc = "done" \/ (mpc = "crashed" /\ tick_err = "none"))

\* C15 witness: a tick rendered after the producer had ended on a link
\* error, no interrupt having occurred.
C15_Witness ==
    /\ mpc = "a_release" /\ ppc = "done" /\ reported
    /\ ~interrupted /\ running

WaitingOnLink == ppc \in {"connect", "open_logger", "next"}

\* C16: while the producer is connecting or is blocked in the iterator
\* waiting for the next frame, it does not own the lock; it owns it only
\* inside the block of lines 144-149.
C16_NoLockWhileWaiting ==
    /\ WaitingOnLink => data_lock # "producer"
    /\ data_lock = "producer" => InProducerBlock

\* C16 witness: the producer waits for a frame, having appended some, while
\* animate holds the lock.
C16_Witness ==
    /\ ppc = "next" /\ data_count > 0 /\ data_lock = "main"

CmdRank(c) ==
    CASE c = "connect" -> 1
      [] c = "arm" -> 2
      [] c = "takeoff" -> 3
      [] c \in Scripted -> 4
      [] c = "land" -> 5
      [] c = "disconnect" -> 6

PcRank(pc) ==
    CASE pc = "connect" -> 1
      [] pc \in {"arm", "arm_sleep"} -> 2
      [] pc = "takeoff" -> 3
      [] pc \in {"sleep1", "up", "down", "sleep2", "stop"} -> 4
      [] pc = "mc_exit" -> 5
      [] pc = "scf_exit" -> 6
      [] pc = "done" -> 7

Needs(s, c, before) == Count(s, c) > 0 => Before(s, before, c)

CommandsInOrder ==
    /\ \A i, j \in 1..Len(cmds) : i < j => CmdRank(cmds[i]) <= CmdRank(cmds[j])
    /\ \A c \in {"connect", "arm", "takeoff", "land", "disconnect"} :
         Count(cmds, c) <= 1
    /\ Needs(cmds, "arm", "connect")
    /\ Needs(cmds, "takeoff", "arm")
    /\ \A c \in Scripted \cup {"land"} : Needs(cmds, c, "takeoff")
    /\ Needs(cmds, "disconnect", "connect")

\* C17: the commands sent to the vehicle are always in the order connect,
\* arm, takeoff, scripted motions, land, disconnect, each of the others at
\* most once: no takeoff without an earlier arm request, no motion or land
\* without an earlier takeoff, nothing but disconnect after land; and the
\* script's phase never goes back to an earlier one.
C17_CommandOrder ==
    /\ [](script = "hover" => CommandsInOrder)
    /\ [][PcRank(hpc') >= PcRank(hpc)]_vars

\* C17 witness: a complete flight, all six kinds of command issued.
C17_Witness ==
    /\ script = "hover" /\ hpc = "done"
    /\ cmds = <<"connect", "arm", "takeoff", "up", "down", "stop", "land",
                "disconnect">>

\* C18 as stated: whenever the lock is free the four series have the same
\* length, data_count is the number of groups appended, and the common
\* length is min(data_count, capacity), also after an append_group that
\* failed part-way on an entry lacking a channel.
C18_BufferCounterConsistent ==
    data_lock = "free" =>
        /\ SameLength(timestamps, roll_data, pitch_data, yaw_data)
        /\ Len(hist_t) = data_count /\ Len(hist_y) = data_count
        /\ Len(timestamps) = (IF data_count < maxlen THEN data_count ELSE maxlen)

LoopLeft == ppc \in {"logger_exit", "scf_exit", "except", "done", "crashed"}

\* C19: once running is False at most one further group is appended and
\* counted; a frame read from the Link after the flag was set is never
\* appended or counted; and with the flag still unset a frame read after
\* the deadline elapsed has been appended when the loop is left.
C19_StopDiscards ==
    /\ ~running =>
           /\ data_count <= count_at_stop + 1
           /\ Len(hist_t) <= count_at_stop + 1
    /\ reads_after_stop >= 1 =>
           /\ Len(hist_t) <= nread - reads_after_stop
           /\ data_count <= nread - reads_after_stop
           /\ ~InProducerBlock
    /\ (read_late /\ running /\ LoopLeft /\ perr = "none") =>
           /\ data_count = nread
           /\ Len(hist_y) = nread

\* C19 witness: the flag was set while a group was being handled, that
\* group was appended, and the next frame read was discarded.
C19_Witness ==
    /\ ~running /\ ppc = "done"
    /\ data_count = count_at_stop + 1
    /\ reads_after_stop = 1 /\ nread = data_count + 1

\* C20: the main block is at the report, or past it, only when the producer
\* thread has ended, and the counter and the appended groups stay what the
\* report read.
C20_ReportAfterProducerEnds ==
    /\ mpc \in {"report", "sleep3", "done"} => ~IsAlive
    /\ mpc \in {"sleep3", "done"} =>
           /\ data_count = final_total
           /\ Len(hist_t) = final_total

\* C20 witness: the total was reported after an interrupt and the script
\* returned.
C20_Witness ==
    /\ mpc = "done" /\ interrupted
    /\ final_total >= 2 /\ final_total = data_count

====
